---- MODULE Spec2Model ----
(***************************************************************************)
(* Model of Pricofy/translation-manager: the token-budget and item-count   *)
(* chunkers (internal/chunker), the two revisions of the router            *)
(* (internal/router: the direct-pair router and the hub-pivot router), and *)
(* the request handler (internal/handler), and the warmup handler with its *)
(* concurrent self-invocation.                                             *)
(*                                                                         *)
(* A text is modelled as a record [s |-> label, len |-> byte length]: the  *)
(* code only ever reads len(text) and moves texts around whole.  A nil     *)
(* slice and an empty slice both have length 0 in Go and are modelled as   *)
(* <<>>, with a separate flag where the code tells nil from empty.         *)
(***************************************************************************)
EXTENDS Integers, Sequences, FiniteSets, TLC

VARIABLES
    cTexts,     \* chunker: the texts argument
    cMax,       \* chunker: the maxTokens / maxTexts argument
    cOp,        \* chunker: which function has been applied ("none" before)
    cOut,       \* chunker: the returned chunks
    router,     \* which router revision is built in: "direct" or "hub"
    entry,      \* the entry point that was called ("none" before the call)
    pc,         \* "start", "invoking" (blocked in Invoke) or "done"
    req,        \* the Request given to Handle
    newError,   \* the error router.New returns when called ("" for nil)
    args,       \* the arguments of the router call: source, target, and the
                \* chunks (of TranslateChunks) or the texts (of Translate)
    tc,         \* the TranslateChunks activation
    calls,      \* every request sent to a translator so far, in order
    replies,    \* every reply received so far, in order
    tcOut,      \* what TranslateChunks returned
    rOut,       \* what getRoute / IsValidPair / HasDirectPair / Translate /
                \* validateRequest returned
    resp,       \* the Response of Handle
    hRet,       \* how Handle returned: is the *Response nil, and the Go error
    event,      \* warmup: the WarmupEvent given to HandleWarmup
    wpc,        \* warmup: where HandleWarmup / selfInvoke stands
    siCount,    \* warmup: the count argument of selfInvoke (0: not called)
    cfgErr,     \* warmup: the error of config.LoadDefaultConfig ("" for nil)
    spawned,    \* warmup: the loop counter i of selfInvoke
    wg,         \* warmup: the counter of the WaitGroup
    goroutines, \* warmup: per goroutine, its position and the error of Invoke
    errMu,      \* warmup: the goroutine holding the mutex (0: unlocked)
    invokeError,\* warmup: the shared variable invokeErr ("" for nil)
    sent,       \* warmup: the inputs of the Invoke calls made so far
    acquired,   \* warmup: the goroutines in the order they locked errMu
    stores,     \* warmup: every assignment to invokeErr made so far
    siRet,      \* warmup: the error selfInvoke returned ("" for nil)
    wResp,      \* warmup: what HandleWarmup returned
    handled,    \* warmup: the invocations a child instance has handled
    further     \* warmup: the invocations child instances asked for

chunkVars == <<cTexts, cMax, cOp, cOut>>
routerVars == <<router, entry, pc, req, newError, args, tc, calls, replies, tcOut, rOut, resp, hRet>>
warmVars == <<event, wpc, siCount, cfgErr, spawned, wg, goroutines, errMu,
              invokeError, sent, acquired, stores, siRet, wResp, handled, further>>
vars == <<cTexts, cMax, cOp, cOut,
          router, entry, pc, req, newError, args, tc, calls, replies, tcOut, rOut,
          resp, hRet,
          event, wpc, siCount, cfgErr, spawned, wg, goroutines, errMu,
          invokeError, sent, acquired, stores, siRet, wResp, handled, further>>

(***************************************************************************)
(* Bounds of the model.                                                    *)
(***************************************************************************)
MaxTexts == 4       \* longest texts argument given to the chunkers
MaxBudget == 3      \* largest maxTokens / maxTexts argument
MaxReqTexts == 3    \* longest Texts of a Request given to Handle
MaxConcurrency == 2 \* largest concurrency of a warmup event

(***************************************************************************)
(* Program constants.                                                      *)
(***************************************************************************)
DefaultMaxTextsPerChunk == 50
DefaultMaxTokens == 3000

(***************************************************************************)
(* Generic helpers.                                                        *)
(***************************************************************************)
SeqsUpTo(S, n) == UNION {[1..k -> S] : k \in 0..n}

RECURSIVE Flatten(_)
\* append(all, chunk...) over the chunks, in order
Flatten(chunks) ==
    IF chunks = <<>> THEN <<>>
    ELSE Head(chunks) \o Flatten(Tail(chunks))

Min(a, b) == IF a < b THEN a ELSE b

(***************************************************************************)
(* internal/chunker                                                        *)
(***************************************************************************)
RECURSIVE ChunkTextsFrom_DropsShortTail(_, _, _)
\* A plausible slip: the loop stops when fewer than maxTexts texts are left,
\* and the short last chunk is lost.
ChunkTextsFrom_DropsShortTail(texts, i, maxTexts) ==
    IF i + maxTexts > Len(texts) THEN <<>>
    ELSE <<SubSeq(texts, i + 1, i + maxTexts)>>
             \o ChunkTextsFrom_DropsShortTail(texts, i + maxTexts, maxTexts)

\* ChunkTexts: slices texts[i:end] for i = 0, maxTexts, 2*maxTexts, ...
RECURSIVE ChunkTextsFrom(_, _, _)
ChunkTextsFrom(texts, i, maxTexts) ==
    IF i >= Len(texts) THEN <<>>
    ELSE LET end == Min(i + maxTexts, Len(texts))
         IN  <<SubSeq(texts, i + 1, end)>> \o ChunkTextsFrom(texts, i + maxTexts, maxTexts)

ChunkTexts(texts, maxTexts) ==
    IF Len(texts) = 0 THEN <<>>
    ELSE ChunkTextsFrom(texts, 0,
             IF maxTexts <= 0 THEN DefaultMaxTextsPerChunk ELSE maxTexts)

\* A plausible slip: the division rounds up.
EstimateTokens_RoundsUp(text) ==
    IF text.len = 0 THEN 0
    ELSE LET tokens == (text.len + 3) \div 4
         IN  IF tokens = 0 THEN 1 ELSE tokens

\* EstimateTokens: len(text) / 4 in integer division, at least 1 unless empty
EstimateTokens(text) ==
    IF text.len = 0 THEN 0
    ELSE LET tokens == text.len \div 4
         IN  IF tokens = 0 THEN 1 ELSE tokens

\* The loop state of ChunkByTokens before the first text.
ChunkInit == [chunks |-> <<>>, currentChunk |-> <<>>, currentTokens |-> 0]

\* A plausible slip: the flush test looks at the chunk's cost so far only
\* (is the chunk already full?) instead of the cost with the new text added.
ChunkStep_TestsCurrentOnly(st, text, maxTokens) ==
    LET textTokens == EstimateTokens(text) IN
    IF textTokens > maxTokens
    THEN [chunks |-> (IF Len(st.currentChunk) > 0
                      THEN Append(st.chunks, st.currentChunk)
                      ELSE st.chunks) \o <<(<<text>>)>>,
          currentChunk |-> IF Len(st.currentChunk) > 0 THEN <<>> ELSE st.currentChunk,
          currentTokens |-> IF Len(st.currentChunk) > 0 THEN 0 ELSE st.currentTokens]
    ELSE LET flush == st.currentTokens >= maxTokens
                      /\ Len(st.currentChunk) > 0
             afterFlush == IF flush
                           THEN [chunks |-> Append(st.chunks, st.currentChunk),
                                 currentChunk |-> <<>>,
                                 currentTokens |-> 0]
                           ELSE st
         IN  [chunks |-> afterFlush.chunks,
              currentChunk |-> Append(afterFlush.currentChunk, text),
              currentTokens |-> afterFlush.currentTokens + textTokens]

\* A plausible slip: a text that would fill the chunk exactly to the budget
\* already starts a new chunk.
ChunkStep_FlushesAtBudget(st, text, maxTokens) ==
    LET textTokens == EstimateTokens(text) IN
    IF textTokens > maxTokens
    THEN [chunks |-> (IF Len(st.currentChunk) > 0
                      THEN Append(st.chunks, st.currentChunk)
                      ELSE st.chunks) \o <<(<<text>>)>>,
          currentChunk |-> IF Len(st.currentChunk) > 0 THEN <<>> ELSE st.currentChunk,
          currentTokens |-> IF Len(st.currentChunk) > 0 THEN 0 ELSE st.currentTokens]
    ELSE LET flush == st.currentTokens + textTokens >= maxTokens
                      /\ Len(st.currentChunk) > 0
             afterFlush == IF flush
                           THEN [chunks |-> Append(st.chunks, st.currentChunk),
                                 currentChunk |-> <<>>,
                                 currentTokens |-> 0]
                           ELSE st
         IN  [chunks |-> afterFlush.chunks,
              currentChunk |-> Append(afterFlush.currentChunk, text),
              currentTokens |-> afterFlush.currentTokens + textTokens]

\* One iteration of the loop of ChunkByTokens, on the loop state st.
ChunkStep(st, text, maxTokens) ==
    LET textTokens == EstimateTokens(text) IN
    IF textTokens > maxTokens
    THEN \* oversized: flush the current chunk, emit the text alone, continue
         [chunks |-> (IF Len(st.currentChunk) > 0
                      THEN Append(st.chunks, st.currentChunk)
                      ELSE st.chunks) \o <<(<<text>>)>>,
          currentChunk |-> IF Len(st.currentChunk) > 0 THEN <<>> ELSE st.currentChunk,
          currentTokens |-> IF Len(st.currentChunk) > 0 THEN 0 ELSE st.currentTokens]
    ELSE LET flush == st.currentTokens + textTokens > maxTokens
                      /\ Len(st.currentChunk) > 0
             afterFlush == IF flush
                           THEN [chunks |-> Append(st.chunks, st.currentChunk),
                                 currentChunk |-> <<>>,
                                 currentTokens |-> 0]
                           ELSE st
         IN  [chunks |-> afterFlush.chunks,
              currentChunk |-> Append(afterFlush.currentChunk, text),
              currentTokens |-> afterFlush.currentTokens + textTokens]

RECURSIVE ChunkLoop(_, _, _)
\* for _, text := range texts { ... }
ChunkLoop(st, texts, maxTokens) ==
    IF texts = <<>> THEN st
    ELSE ChunkLoop(ChunkStep(st, Head(texts), maxTokens), Tail(texts), maxTokens)

\* A plausible slip: the remaining chunk is not flushed after the loop.
ChunkByTokens_NoFinalFlush(texts, maxTokens) ==
    IF Len(texts) = 0 THEN <<>>
    ELSE ChunkLoop(ChunkInit, texts,
             IF maxTokens <= 0 THEN DefaultMaxTokens ELSE maxTokens).chunks

\* A plausible slip: the default replaces a budget of 0 only, and a negative
\* budget is used as it is.
ChunkByTokens_DefaultOnlyForZero(texts, maxTokens) ==
    IF Len(texts) = 0 THEN <<>>
    ELSE LET st == ChunkLoop(ChunkInit, texts,
                       IF maxTokens = 0 THEN DefaultMaxTokens ELSE maxTokens)
         IN  IF Len(st.currentChunk) > 0
             THEN Append(st.chunks, st.currentChunk)
             ELSE st.chunks

\* A plausible slip: the last chunk is appended whether or not it holds a
\* text.
ChunkByTokens_AlwaysFlushes(texts, maxTokens) ==
    IF Len(texts) = 0 THEN <<>>
    ELSE LET st == ChunkLoop(ChunkInit, texts,
                       IF maxTokens <= 0 THEN DefaultMaxTokens ELSE maxTokens)
         IN  Append(st.chunks, st.currentChunk)

ChunkByTokens(texts, maxTokens) ==
    IF Len(texts) = 0 THEN <<>>
    ELSE LET st == ChunkLoop(ChunkInit, texts,
                       IF maxTokens <= 0 THEN DefaultMaxTokens ELSE maxTokens)
         IN  IF Len(st.currentChunk) > 0
             THEN Append(st.chunks, st.currentChunk)
             ELSE st.chunks

(***************************************************************************)
(* internal/router, first revision: the direct-pair router.                *)
(***************************************************************************)
\* Supported languages (without English)
supportedLanguagesDirect == {"es", "it", "pt", "fr", "de"}

HasDirectPair(source, target) ==
    source \in supportedLanguagesDirect /\ target \in supportedLanguagesDirect
    /\ source # target

\* fmt.Sprintf("pricofy-translator-%s-%s", source, target)
GetFunctionName(source, target) ==
    "pricofy-translator-" \o source \o "-" \o target

(***************************************************************************)
(* internal/router, second revision: the hub-pivot router.                 *)
(***************************************************************************)
romanceLanguages ==
    {"es", "es_AR", "es_CL", "es_CO", "es_CR", "es_DO", "es_EC", "es_ES",
     "es_GT", "es_HN", "es_MX", "es_NI", "es_PA", "es_PE", "es_PR", "es_SV",
     "es_UY", "es_VE",
     "fr", "fr_BE", "fr_CA", "fr_FR", "wa", "frp", "oc",
     "it", "co", "nap", "scn", "vec",
     "pt", "pt_BR", "pt_PT", "gl", "mwl",
     "ca", "an", "lad",
     "ro",
     "la", "rm", "lld", "fur", "lij", "lmo", "sc"}

\* init(): every romance language, then "de" and "en"
supportedLanguages == romanceLanguages \cup {"de"} \cup {"en"}

\* A plausible slip: the test that the two codes differ is left out.
IsValidPair_NoDistinctTest(source, target) ==
    source \in supportedLanguages /\ target \in supportedLanguages

IsValidPair(source, target) ==
    source \in supportedLanguages /\ target \in supportedLanguages
    /\ source # target

\* One step of a route.  A nil route is modelled as <<>>: getRoute never
\* returns an empty non-nil slice.
Step(lambdaName, targetLang) == [lambdaName |-> lambdaName, targetLang |-> targetLang]

\* A plausible slip: the romance-to-German pivot names the wrong outbound
\* service.
getRoute_RomanceDeWrongService(source, target) ==
    IF target = "en" /\ source \in romanceLanguages
        THEN <<Step("pricofy-translator-romance-en", "")>>
    ELSE IF target = "en" /\ source = "de"
        THEN <<Step("pricofy-translator-de-en", "")>>
    ELSE IF source = "en" /\ target \in romanceLanguages
        THEN <<Step("pricofy-translator-en-romance", target)>>
    ELSE IF source = "en" /\ target = "de"
        THEN <<Step("pricofy-translator-en-de", "")>>
    ELSE IF source \in romanceLanguages /\ target \in romanceLanguages
        THEN <<Step("pricofy-translator-romance-en", ""),
               Step("pricofy-translator-en-romance", target)>>
    ELSE IF source \in romanceLanguages /\ target = "de"
        THEN <<Step("pricofy-translator-romance-en", ""),
               Step("pricofy-translator-en-romance", target)>>
    ELSE IF source = "de" /\ target \in romanceLanguages
        THEN <<Step("pricofy-translator-de-en", ""),
               Step("pricofy-translator-en-romance", target)>>
    ELSE <<>>

\* A plausible slip: German to English is sent through the pivot branches'
\* shape, as two hops, instead of the single de-en hop.
getRoute_DeEnTwoHops(source, target) ==
    IF target = "en" /\ source \in romanceLanguages
        THEN <<Step("pricofy-translator-romance-en", "")>>
    ELSE IF target = "en" /\ source = "de"
        THEN <<Step("pricofy-translator-de-en", ""),
               Step("pricofy-translator-en-romance", target)>>
    ELSE IF source = "en" /\ target \in romanceLanguages
        THEN <<Step("pricofy-translator-en-romance", target)>>
    ELSE IF source = "en" /\ target = "de"
        THEN <<Step("pricofy-translator-en-de", "")>>
    ELSE IF source \in romanceLanguages /\ target \in romanceLanguages
        THEN <<Step("pricofy-translator-romance-en", ""),
               Step("pricofy-translator-en-romance", target)>>
    ELSE IF source \in romanceLanguages /\ target = "de"
        THEN <<Step("pricofy-translator-romance-en", ""),
               Step("pricofy-translator-en-de", "")>>
    ELSE IF source = "de" /\ target \in romanceLanguages
        THEN <<Step("pricofy-translator-de-en", ""),
               Step("pricofy-translator-en-romance", target)>>
    ELSE <<>>

\* A plausible slip: the second hop of the German pivot is not told the
\* target language.
getRoute_PivotWithoutTargetLang(source, target) ==
    IF target = "en" /\ source \in romanceLanguages
        THEN <<Step("pricofy-translator-romance-en", "")>>
    ELSE IF target = "en" /\ source = "de"
        THEN <<Step("pricofy-translator-de-en", "")>>
    ELSE IF source = "en" /\ target \in romanceLanguages
        THEN <<Step("pricofy-translator-en-romance", target)>>
    ELSE IF source = "en" /\ target = "de"
        THEN <<Step("pricofy-translator-en-de", "")>>
    ELSE IF source \in romanceLanguages /\ target \in romanceLanguages
        THEN <<Step("pricofy-translator-romance-en", ""),
               Step("pricofy-translator-en-romance", target)>>
    ELSE IF source \in romanceLanguages /\ target = "de"
        THEN <<Step("pricofy-translator-romance-en", ""),
               Step("pricofy-translator-en-de", "")>>
    ELSE IF source = "de" /\ target \in romanceLanguages
        THEN <<Step("pricofy-translator-de-en", ""),
               Step("pricofy-translator-en-romance", "")>>
    ELSE <<>>

\* A plausible slip: the en-de hop is given the target language as the
\* en-romance hop is.
getRoute_EnDeWithTargetLang(source, target) ==
    IF target = "en" /\ source \in romanceLanguages
        THEN <<Step("pricofy-translator-romance-en", "")>>
    ELSE IF target = "en" /\ source = "de"
        THEN <<Step("pricofy-translator-de-en", "")>>
    ELSE IF source = "en" /\ target \in romanceLanguages
        THEN <<Step("pricofy-translator-en-romance", target)>>
    ELSE IF source = "en" /\ target = "de"
        THEN <<Step("pricofy-translator-en-de", target)>>
    ELSE IF source \in romanceLanguages /\ target \in romanceLanguages
        THEN <<Step("pricofy-translator-romance-en", ""),
               Step("pricofy-translator-en-romance", target)>>
    ELSE IF source \in romanceLanguages /\ target = "de"
        THEN <<Step("pricofy-translator-romance-en", ""),
               Step("pricofy-translator-en-de", "")>>
    ELSE IF source = "de" /\ target \in romanceLanguages
        THEN <<Step("pricofy-translator-de-en", ""),
               Step("pricofy-translator-en-romance", target)>>
    ELSE <<>>

getRoute(source, target) ==
    IF target = "en" /\ source \in romanceLanguages
        THEN <<Step("pricofy-translator-romance-en", "")>>
    ELSE IF target = "en" /\ source = "de"
        THEN <<Step("pricofy-translator-de-en", "")>>
    ELSE IF source = "en" /\ target \in romanceLanguages
        THEN <<Step("pricofy-translator-en-romance", target)>>
    ELSE IF source = "en" /\ target = "de"
        THEN <<Step("pricofy-translator-en-de", "")>>
    ELSE IF source \in romanceLanguages /\ target \in romanceLanguages
        THEN <<Step("pricofy-translator-romance-en", ""),
               Step("pricofy-translator-en-romance", target)>>
    ELSE IF source \in romanceLanguages /\ target = "de"
        THEN <<Step("pricofy-translator-romance-en", ""),
               Step("pricofy-translator-en-de", "")>>
    ELSE IF source = "de" /\ target \in romanceLanguages
        THEN <<Step("pricofy-translator-de-en", ""),
               Step("pricofy-translator-en-romance", target)>>
    ELSE <<>>

(***************************************************************************)
(* Remote invocation.  A reply is what lambdaClient.Invoke hands back:     *)
(* invokeErr is the SDK's error ("" for nil), functionError the platform's *)
(* FunctionError (<<>> for a nil pointer), parseErr the error of           *)
(* json.Unmarshal on the payload ("" for nil), Error and Translations the  *)
(* fields of the decoded TranslatorResponse.                               *)
(***************************************************************************)
Ret(chunks, err) == [chunks |-> chunks, err |-> err]

Reply(invokeErr, functionError, parseErr, Error, Translations) ==
    [invokeErr |-> invokeErr, functionError |-> functionError,
     parseErr |-> parseErr, Error |-> Error, Translations |-> Translations]

\* invokeLambda, from the reply on; the first revision's TranslateChunks holds
\* the same statements inline (router.go 85-109).
invokeLambda(functionName, reply) ==
    IF reply.invokeErr # ""
        THEN Ret(<<>>, "failed to invoke " \o functionName \o ": " \o reply.invokeErr)
    ELSE IF reply.functionError # <<>>
        THEN Ret(<<>>, "lambda error: " \o reply.functionError[1])
    ELSE IF reply.parseErr # ""
        THEN Ret(<<>>, "failed to parse response: " \o reply.parseErr)
    ELSE IF reply.Error # ""
        THEN Ret(<<>>, "translator error: " \o reply.Error)
    ELSE Ret(reply.Translations, "")

\* The request sent to a translator: TranslatorRequest with the function name.
Call(functionName, targetLang, callChunks) ==
    [FunctionName |-> functionName, TargetLang |-> targetLang, Chunks |-> callChunks]

\* A TranslateChunks activation either has returned (ret) or is blocked in
\* Invoke for step hop of its route with currentChunks as the payload.
Returned(ret) ==
    [status |-> "returned", route |-> <<>>, hop |-> 0, currentChunks |-> <<>>,
     ret |-> ret]

Invoking(tcRoute, tcHop, tcChunks) ==
    [status |-> "invoke", route |-> tcRoute, hop |-> tcHop,
     currentChunks |-> tcChunks, ret |-> Ret(<<>>, "")]

\* The request an activation blocked in Invoke has sent.
CallOf(variant, a) ==
    Call(a.route[a.hop].lambdaName,
         IF variant = "hub" THEN a.route[a.hop].targetLang ELSE "",
         a.currentChunks)

\* for i, step := range route: the loop head for step tcHop
TranslateChunksLoop(tcRoute, tcHop, tcChunks) ==
    IF tcHop > Len(tcRoute) THEN Returned(Ret(tcChunks, ""))
    ELSE Invoking(tcRoute, tcHop, tcChunks)

\* A plausible slip: the invocation carries the first chunk only, as if the
\* caller were to invoke once per chunk.
TranslateChunksDirect_FirstChunkOnly(source, target, tcChunks) ==
    IF Len(tcChunks) = 0 THEN Returned(Ret(<<>>, ""))
    ELSE Invoking(<<Step(GetFunctionName(source, target), "")>>, 1, <<tcChunks[1]>>)

\* First revision: one function per language pair, one invocation.
TranslateChunksDirect(source, target, tcChunks) ==
    IF Len(tcChunks) = 0 THEN Returned(Ret(<<>>, ""))
    ELSE Invoking(<<Step(GetFunctionName(source, target), "")>>, 1, tcChunks)

\* A plausible slip: the nil route is not tested, and the loop over no steps
\* hands the chunks back.
TranslateChunksHub_NoNilTest(source, target, tcChunks) ==
    IF Len(tcChunks) = 0 THEN Returned(Ret(<<>>, ""))
    ELSE TranslateChunksLoop(getRoute(source, target), 1, tcChunks)

\* Second revision, up to the first invocation.
TranslateChunksHub(source, target, tcChunks) ==
    IF Len(tcChunks) = 0 THEN Returned(Ret(<<>>, ""))
    ELSE LET tcRoute == getRoute(source, target) IN
         IF tcRoute = <<>>
         THEN Returned(Ret(<<>>, "unsupported language pair: " \o source \o "-" \o target))
         ELSE TranslateChunksLoop(tcRoute, 1, tcChunks)

TranslateChunks(variant, source, target, tcChunks) ==
    IF variant = "direct" THEN TranslateChunksDirect(source, target, tcChunks)
    ELSE TranslateChunksHub(source, target, tcChunks)

\* A plausible slip: currentChunks is not replaced by the hop's result, so the
\* next hop is sent what this hop was sent.
TranslateChunksResume_KeepsChunks(variant, a, reply) ==
    LET step == a.route[a.hop]
        result == invokeLambda(step.lambdaName, reply)
    IN  IF variant = "direct" THEN Returned(result)
        ELSE IF result.err # ""
        THEN Returned(Ret(<<>>, "step " \o ToString(a.hop) \o " (" \o step.lambdaName
                                 \o ") failed: " \o result.err))
        ELSE IF a.hop + 1 > Len(a.route) THEN Returned(Ret(result.chunks, ""))
        ELSE Invoking(a.route, a.hop + 1, a.currentChunks)

\* A plausible slip: the error of a hop is not looked at, and the loop goes on
\* with what the hop returned.
TranslateChunksResume_IgnoresError(variant, a, reply) ==
    LET step == a.route[a.hop]
        result == invokeLambda(step.lambdaName, reply)
    IN  IF variant = "direct" THEN Returned(result)
        ELSE TranslateChunksLoop(a.route, a.hop + 1, result.chunks)

\* A plausible slip: the error names the step by the loop index, which counts
\* from zero.
TranslateChunksResume_ZeroBasedStep(variant, a, reply) ==
    LET step == a.route[a.hop]
        result == invokeLambda(step.lambdaName, reply)
    IN  IF variant = "direct" THEN Returned(result)
        ELSE IF result.err # ""
        THEN Returned(Ret(<<>>, "step " \o ToString(a.hop - 1) \o " (" \o step.lambdaName
                                 \o ") failed: " \o result.err))
        ELSE TranslateChunksLoop(a.route, a.hop + 1, result.chunks)

\* The rest of the loop body once Invoke has answered the activation a.
TranslateChunksResume(variant, a, reply) ==
    LET step == a.route[a.hop]
        result == invokeLambda(step.lambdaName, reply)
    IN  IF variant = "direct" THEN Returned(result)
        ELSE IF result.err # ""
        THEN Returned(Ret(<<>>, "step " \o ToString(a.hop) \o " (" \o step.lambdaName
                                 \o ") failed: " \o result.err))
        ELSE TranslateChunksLoop(a.route, a.hop + 1, result.chunks)

(***************************************************************************)
(* internal/handler                                                        *)
(***************************************************************************)
\* Request: TextsNil tells a nil Texts from an empty one (both have Len 0).
Request(Texts, TextsNil, SourceLang, TargetLang) ==
    [Texts |-> Texts, TextsNil |-> TextsNil,
     SourceLang |-> SourceLang, TargetLang |-> TargetLang]

\* Response: TranslationsNil tells a nil Translations from an empty one.
Response(Translations, TranslationsNil, ChunksProcessed, Error) ==
    [Translations |-> Translations, TranslationsNil |-> TranslationsNil,
     ChunksProcessed |-> ChunksProcessed, Error |-> Error]

\* &Response{Error: msg}
ErrorResponse(msg) == Response(<<>>, TRUE, 0, msg)

\* A plausible slip: the rule that the two languages differ is left out.
validateRequest_NoDistinctTest(r) ==
    IF r.SourceLang = "" THEN "sourceLang is required"
    ELSE IF r.TargetLang = "" THEN "targetLang is required"
    ELSE IF r.TextsNil THEN "texts is required"
    ELSE ""

\* A plausible slip: the texts rule is tested first.
validateRequest_TextsFirst(r) ==
    IF r.TextsNil THEN "texts is required"
    ELSE IF r.SourceLang = "" THEN "sourceLang is required"
    ELSE IF r.TargetLang = "" THEN "targetLang is required"
    ELSE IF r.SourceLang = r.TargetLang
        THEN "sourceLang and targetLang must be different"
    ELSE ""

\* validateRequest: the error message, "" for nil
validateRequest(r) ==
    IF r.SourceLang = "" THEN "sourceLang is required"
    ELSE IF r.TargetLang = "" THEN "targetLang is required"
    ELSE IF r.SourceLang = r.TargetLang
        THEN "sourceLang and targetLang must be different"
    ELSE IF r.TextsNil THEN "texts is required"
    ELSE ""

\* The pair test of the handler that goes with the hub-pivot router (that
\* handler is not in the sources; it answers "unsupported language pair").
HandlePairCheckHub(source, target) == IsValidPair(source, target)

\* The error of a rejected pair.  "->" stands for the arrow U+2192.
HandlePairError(variant, source, target) ==
    IF variant = "direct" THEN "no translator for " \o source \o "->" \o target
    ELSE "unsupported language pair: " \o source \o "->" \o target

HandlePairCheck(variant, source, target) ==
    IF variant = "direct" THEN HasDirectPair(source, target)
    ELSE HandlePairCheckHub(source, target)

\* A plausible slip: the router is built before the empty input is looked at,
\* so a failing router.New turns an empty request into an error.
HandleBegin_RouterBeforeEmptyTest(variant, r, newErr) ==
    LET verr == validateRequest(r) IN
    IF verr # ""
        THEN [responded |-> TRUE, resp |-> ErrorResponse(verr), chunks |-> <<>>]
    ELSE IF newErr # ""
        THEN [responded |-> TRUE,
              resp |-> ErrorResponse("failed to create router: " \o newErr),
              chunks |-> <<>>]
    ELSE IF Len(r.Texts) = 0
        THEN [responded |-> TRUE, resp |-> Response(<<>>, FALSE, 0, ""), chunks |-> <<>>]
    ELSE IF ~HandlePairCheck(variant, r.SourceLang, r.TargetLang)
        THEN [responded |-> TRUE,
              resp |-> ErrorResponse(HandlePairError(variant, r.SourceLang, r.TargetLang)),
              chunks |-> <<>>]
    ELSE [responded |-> FALSE, resp |-> ErrorResponse(""),
          chunks |-> ChunkByTokens(r.Texts, DefaultMaxTokens)]

\* Handle, up to the call of TranslateChunks.  newErr is the error of
\* router.New ("" for nil).  Either the response, or the chunks to translate.
HandleBegin(variant, r, newErr) ==
    LET verr == validateRequest(r) IN
    IF verr # ""
        THEN [responded |-> TRUE, resp |-> ErrorResponse(verr), chunks |-> <<>>]
    ELSE IF Len(r.Texts) = 0
        THEN [responded |-> TRUE, resp |-> Response(<<>>, FALSE, 0, ""), chunks |-> <<>>]
    ELSE IF newErr # ""
        THEN [responded |-> TRUE,
              resp |-> ErrorResponse("failed to create router: " \o newErr),
              chunks |-> <<>>]
    ELSE IF ~HandlePairCheck(variant, r.SourceLang, r.TargetLang)
        THEN [responded |-> TRUE,
              resp |-> ErrorResponse(HandlePairError(variant, r.SourceLang, r.TargetLang)),
              chunks |-> <<>>]
    ELSE [responded |-> FALSE, resp |-> ErrorResponse(""),
          chunks |-> ChunkByTokens(r.Texts, DefaultMaxTokens)]

RECURSIVE FlattenPrepending(_)
FlattenPrepending(chunks) ==
    IF chunks = <<>> THEN <<>>
    ELSE FlattenPrepending(Tail(chunks)) \o Head(chunks)

\* A plausible slip: each chunk's results are put in front of the ones
\* gathered so far instead of behind them.
HandleEnd_PrependsBatches(hChunks, tcRet) ==
    IF tcRet.err # "" THEN ErrorResponse("translation failed: " \o tcRet.err)
    ELSE Response(FlattenPrepending(tcRet.chunks), FALSE, Len(hChunks), "")

\* A plausible slip: the batches that came back are counted instead of the
\* batches that were sent.
HandleEnd_CountsReturnedBatches(hChunks, tcRet) ==
    IF tcRet.err # "" THEN ErrorResponse("translation failed: " \o tcRet.err)
    ELSE Response(Flatten(tcRet.chunks), FALSE, Len(tcRet.chunks), "")

\* Handle, from the return of TranslateChunks on.
HandleEnd(hChunks, tcRet) ==
    IF tcRet.err # "" THEN ErrorResponse("translation failed: " \o tcRet.err)
    ELSE Response(Flatten(tcRet.chunks), FALSE, Len(hChunks), "")

\* A plausible slip: a failure is returned as the Go error, with no Response,
\* which the Lambda runtime reports as a failed invocation.
HandleReturn_FailureAsGoError(response) ==
    IF response.Error # ""
    THEN [resp |-> response, respNil |-> TRUE, err |-> response.Error]
    ELSE [resp |-> response, respNil |-> FALSE, err |-> ""]

\* Every return statement of Handle is "return &Response{...}, nil": a
\* non-nil *Response and a nil error ("" for nil).
HandleReturn(response) == [resp |-> response, respNil |-> FALSE, err |-> ""]

\* json.Marshal of the Response, as lambda.Start does on return: the keys of
\* the payload.  Every field is tagged omitempty, which leaves out a nil or
\* empty slice, the integer 0 and the empty string.
Marshal(response) ==
    (IF Len(response.Translations) > 0 THEN {"translations"} ELSE {})
    \cup (IF response.ChunksProcessed # 0 THEN {"chunksProcessed"} ELSE {})
    \cup (IF response.Error # "" THEN {"error"} ELSE {})

(***************************************************************************)
(* Router.Translate (the same in both revisions): one batch, no chunking.   *)
(***************************************************************************)
\* Translate, from the return of TranslateChunks on.
TranslateEnd(tcRet) ==
    IF tcRet.err # "" THEN [texts |-> <<>>, err |-> tcRet.err]
    ELSE IF Len(tcRet.chunks) = 0 THEN [texts |-> <<>>, err |-> ""]
    ELSE [texts |-> tcRet.chunks[1], err |-> ""]

(***************************************************************************)
(* The values of the variables a specification does not use.               *)
(***************************************************************************)
NoRequest == Request(<<>>, TRUE, "", "")
NoArgs == [source |-> "", target |-> "", chunks |-> <<>>, texts |-> <<>>]
NoOut == [route |-> <<>>, valid |-> FALSE, texts |-> <<>>, err |-> ""]
NoReturn == [respNil |-> TRUE, err |-> ""]

RouterIdle ==
    /\ router = "hub"
    /\ entry = "none"
    /\ pc = "idle"
    /\ req = NoRequest
    /\ newError = ""
    /\ args = NoArgs
    /\ tc = Returned(Ret(<<>>, ""))
    /\ calls = <<>>
    /\ replies = <<>>
    /\ tcOut = Ret(<<>>, "")
    /\ rOut = NoOut
    /\ resp = ErrorResponse("")
    /\ hRet = NoReturn

ChunkerIdle ==
    /\ cTexts = <<>>
    /\ cMax = 0
    /\ cOp = "idle"
    /\ cOut = <<>>

(***************************************************************************)
(* The warmup handler.  A JSON event is modelled by the two keys the code  *)
(* reads: source (a string) and concurrency (<<>> when the key is absent   *)
(* or not a number, <<n>> otherwise).                                      *)
(***************************************************************************)
WarmupSource == "warmup"

WarmupEvent(Source, Concurrency) == [Source |-> Source, Concurrency |-> Concurrency]

WarmupResponse(Status, InstancesWarmed) ==
    [Status |-> Status, InstancesWarmed |-> InstancesWarmed]

\* json.Marshal of a WarmupEvent: both fields are always written.
MarshalWarmupEvent(warmup) ==
    [source |-> warmup.Source, concurrency |-> <<warmup.Concurrency>>]

\* IsWarmupEvent: the parsed event and whether it is a warmup event.
IsWarmupEvent(json) ==
    IF json.source # WarmupSource
    THEN [ok |-> FALSE, warmup |-> WarmupEvent("", 0)]
    ELSE [ok |-> TRUE,
          warmup |-> WarmupEvent(json.source,
                                 IF json.concurrency = <<>> THEN 0
                                 ELSE json.concurrency[1])]

\* A plausible slip: the children are told the concurrency of their parent.
ChildEvent_PassesCount(n) == WarmupEvent(WarmupSource, n)

\* The event selfInvoke(ctx, n) sends to each child.
ChildEvent(n) == WarmupEvent(WarmupSource, 0)

\* The input of client.Invoke in a goroutine of selfInvoke(ctx, n).
InvokeInput(n) ==
    [FunctionName |-> "AWS_LAMBDA_FUNCTION_NAME", InvocationType |-> "Event",
     Payload |-> MarshalWarmupEvent(ChildEvent(n))]

\* The count HandleWarmup calls selfInvoke with; 0 when it does not call it.
SelfInvokeCount(warmup) ==
    IF warmup.Concurrency > 0 THEN warmup.Concurrency ELSE 0

\* A plausible slip: the outcome of the fan-out is not looked at.
InstancesWarmed_IgnoresError(warmup, err) ==
    IF warmup.Concurrency > 0 THEN 1 + warmup.Concurrency ELSE 1

\* instancesWarmed at the return of HandleWarmup; err is what selfInvoke
\* returned when it was called.
InstancesWarmed(warmup, err) ==
    IF warmup.Concurrency > 0 /\ err = "" THEN 1 + warmup.Concurrency ELSE 1

\* The value HandleWarmup returns, with its Go error ("" for nil).
WarmupResult(n) ==
    [statusCode |-> 200, body |-> WarmupResponse("warm", n), err |-> ""]

\* A plausible slip: the shared error is assigned without the nil test, so
\* a later failure replaces an earlier one.
StoreError_Overwrites(current, err) == err

\* if invokeErr == nil { invokeErr = err }
StoreError(current, err) == IF current = "" THEN err ELSE current

\* A goroutine of selfInvoke: "go" (started), "invoking" (inside Invoke),
\* "lock" (waiting for errMu), "locked", "unlock", "done" (wg.Done called).
Goroutine(at, err) == [at |-> at, err |-> err]

NoWarmupResult == [statusCode |-> 0, body |-> WarmupResponse("", 0), err |-> ""]

WarmIdle ==
    /\ event = WarmupEvent("", 0)
    /\ wpc = "idle"
    /\ siCount = 0
    /\ cfgErr = ""
    /\ spawned = 0
    /\ wg = 0
    /\ goroutines = <<>>
    /\ errMu = 0
    /\ invokeError = ""
    /\ sent = <<>>
    /\ acquired = <<>>
    /\ stores = <<>>
    /\ siRet = ""
    /\ wResp = NoWarmupResult
    /\ handled = {}
    /\ further = 0

(***************************************************************************)
(* Specification of the chunkers: Init draws the arguments, one action per *)
(* function applies it.                                                    *)
(***************************************************************************)
\* Texts of 0, 2, 4, 8, 13 and 8000 bytes: estimated at 0, 1, 1, 2, 3 and
\* 2000 tokens.
ChunkerTexts ==
    {[s |-> "", len |-> 0], [s |-> "Hi", len |-> 2], [s |-> "Hola", len |-> 4],
     [s |-> "Test one", len |-> 8], [s |-> "Buenos d_as .", len |-> 13],
     [s |-> "long", len |-> 8000]}

InitChunk ==
    /\ cTexts \in SeqsUpTo(ChunkerTexts, MaxTexts)
    /\ cMax \in -1..MaxBudget
    /\ cOp = "none"
    /\ cOut = <<>>
    /\ RouterIdle
    /\ WarmIdle

ApplyChunkByTokens ==
    /\ cOp = "none"
    /\ cOp' = "ChunkByTokens"
    /\ cOut' = ChunkByTokens(cTexts, cMax)
    /\ UNCHANGED <<cTexts, cMax>>
    /\ UNCHANGED <<routerVars, warmVars>>

ApplyChunkTexts ==
    /\ cOp = "none"
    /\ cOp' = "ChunkTexts"
    /\ cOut' = ChunkTexts(cTexts, cMax)
    /\ UNCHANGED <<cTexts, cMax>>
    /\ UNCHANGED <<routerVars, warmVars>>

\* EstimateTokens, applied to each of the texts.
ApplyEstimateTokens ==
    /\ cOp = "none"
    /\ cOp' = "EstimateTokens"
    /\ cOut' = [i \in 1..Len(cTexts) |-> EstimateTokens(cTexts[i])]
    /\ UNCHANGED <<cTexts, cMax>>
    /\ UNCHANGED <<routerVars, warmVars>>

NextChunk == ApplyChunkByTokens \/ ApplyChunkTexts \/ ApplyEstimateTokens

SpecChunk == InitChunk /\ [][NextChunk]_vars

(***************************************************************************)
(* The translators.  A translator answers a call with an error of one of   *)
(* the four kinds, or with translations: of the shape it was sent, or      *)
(* merged into one batch, or without the last batch, or with the items of  *)
(* every batch in reverse order.                                           *)
(***************************************************************************)
Translated(call, text) ==
    [s |-> text.s \o "|" \o call.FunctionName
           \o (IF call.TargetLang = "" THEN "" ELSE ":" \o call.TargetLang),
     len |-> text.len]

Faithful(call) ==
    [k \in 1..Len(call.Chunks) |->
        [i \in 1..Len(call.Chunks[k]) |-> Translated(call, call.Chunks[k][i])]]

Reversed(batches) ==
    [k \in 1..Len(batches) |->
        [i \in 1..Len(batches[k]) |-> batches[k][Len(batches[k]) + 1 - i]]]

Replies(call) ==
    {Reply("connection reset", <<>>, "", "", <<>>),
     Reply("", <<"Unhandled">>, "", "", <<>>),
     Reply("", <<>>, "unexpected end of JSON input", "", <<>>),
     Reply("", <<>>, "", "out of memory", <<>>),
     Reply("", <<>>, "", "", Faithful(call)),
     Reply("", <<>>, "", "", <<Flatten(Faithful(call))>>),
     Reply("", <<>>, "", "", SubSeq(Faithful(call), 1, Len(call.Chunks) - 1)),
     Reply("", <<>>, "", "", Reversed(Faithful(call)))}

\* The errors router.New can return ("" for nil).
NewErrors == {"", "failed to load AWS config: no credentials"}

(***************************************************************************)
(* The state machine of one call.  Handle and TranslateChunks run from     *)
(* their entry to the first Invoke (or to their return) in one step, and   *)
(* from each answer of Invoke to the next Invoke (or to their return).     *)
(***************************************************************************)
\* The variables after TranslateChunks has reached the activation a.
Reached(a) ==
    /\ tc' = a
    /\ IF a.status = "invoke"
       THEN /\ pc' = "invoking"
            /\ calls' = Append(calls, CallOf(router, a))
            /\ UNCHANGED <<tcOut, resp, hRet, rOut>>
       ELSE /\ pc' = "done"
            /\ tcOut' = a.ret
            /\ calls' = calls
            /\ IF entry' = "Handle"
               THEN LET out == HandleReturn(HandleEnd(args'.chunks, a.ret)) IN
                    /\ resp' = out.resp
                    /\ hRet' = [respNil |-> out.respNil, err |-> out.err]
               ELSE UNCHANGED <<resp, hRet>>
            /\ IF entry' = "Translate"
               THEN LET out == TranslateEnd(a.ret) IN
                    rOut' = [rOut EXCEPT !.texts = out.texts, !.err = out.err]
               ELSE rOut' = rOut

HandleCall ==
    /\ entry = "none" /\ pc = "start"
    /\ entry' = "Handle"
    /\ LET h == HandleBegin(router, req, newError) IN
         IF h.responded
         THEN LET out == HandleReturn(h.resp) IN
              /\ pc' = "done"
              /\ resp' = out.resp
              /\ hRet' = [respNil |-> out.respNil, err |-> out.err]
              /\ UNCHANGED <<args, tc, calls, tcOut, rOut>>
         ELSE /\ args' = [source |-> req.SourceLang, target |-> req.TargetLang,
                          chunks |-> h.chunks, texts |-> <<>>]
              /\ Reached(TranslateChunks(router, req.SourceLang, req.TargetLang, h.chunks))
    /\ UNCHANGED <<router, req, newError, replies>>
    /\ UNCHANGED <<chunkVars, warmVars>>

\* validateRequest, called on its own as its tests call it.
ValidateRequestCall ==
    /\ entry = "none" /\ pc = "start"
    /\ entry' = "validateRequest"
    /\ pc' = "done"
    /\ rOut' = [rOut EXCEPT !.err = validateRequest(req)]
    /\ UNCHANGED <<router, req, newError, args, tc, calls, replies, tcOut, resp, hRet>>
    /\ UNCHANGED <<chunkVars, warmVars>>

TranslateChunksCall ==
    /\ entry = "none" /\ pc = "start" /\ req = NoRequest
    /\ entry' = "TranslateChunks"
    /\ args' = args
    /\ Reached(TranslateChunks(router, args.source, args.target, args.chunks))
    /\ UNCHANGED <<router, req, newError, replies>>
    /\ UNCHANGED <<chunkVars, warmVars>>

TranslateCall ==
    /\ entry = "none" /\ pc = "start" /\ req = NoRequest
    /\ entry' = "Translate"
    /\ args' = args
    /\ IF Len(args.texts) = 0
       THEN /\ pc' = "done"
            /\ rOut' = [rOut EXCEPT !.texts = <<>>, !.err = ""]
            /\ UNCHANGED <<tc, calls, tcOut, resp, hRet>>
       ELSE Reached(TranslateChunks(router, args.source, args.target, <<args.texts>>))
    /\ UNCHANGED <<router, req, newError, replies>>
    /\ UNCHANGED <<chunkVars, warmVars>>

LambdaReturns ==
    /\ pc = "invoking"
    /\ \E reply \in Replies(calls[Len(calls)]) :
         /\ replies' = Append(replies, reply)
         /\ entry' = entry
         /\ args' = args
         /\ Reached(TranslateChunksResume(router, tc, reply))
    /\ UNCHANGED <<router, req, newError>>
    /\ UNCHANGED <<chunkVars, warmVars>>

GetRouteCall ==
    /\ entry = "none" /\ pc = "start" /\ req = NoRequest /\ router = "hub"
    /\ entry' = "getRoute"
    /\ pc' = "done"
    /\ rOut' = [rOut EXCEPT !.route = getRoute(args.source, args.target)]
    /\ UNCHANGED <<router, req, newError, args, tc, calls, replies, tcOut, resp, hRet>>
    /\ UNCHANGED <<chunkVars, warmVars>>

IsValidPairCall ==
    /\ entry = "none" /\ pc = "start" /\ req = NoRequest /\ router = "hub"
    /\ entry' = "IsValidPair"
    /\ pc' = "done"
    /\ rOut' = [rOut EXCEPT !.valid = IsValidPair(args.source, args.target)]
    /\ UNCHANGED <<router, req, newError, args, tc, calls, replies, tcOut, resp, hRet>>
    /\ UNCHANGED <<chunkVars, warmVars>>

HasDirectPairCall ==
    /\ entry = "none" /\ pc = "start" /\ req = NoRequest /\ router = "direct"
    /\ entry' = "HasDirectPair"
    /\ pc' = "done"
    /\ rOut' = [rOut EXCEPT !.valid = HasDirectPair(args.source, args.target)]
    /\ UNCHANGED <<router, req, newError, args, tc, calls, replies, tcOut, resp, hRet>>
    /\ UNCHANGED <<chunkVars, warmVars>>

(***************************************************************************)
(* Specification of the handler: Init draws the request and the router     *)
(* revision.                                                               *)
(***************************************************************************)
\* Texts of 0, 10, 8000 and 12004 bytes: 0, 2, 2000 and 3001 tokens.
HandleTexts ==
    {[s |-> "", len |-> 0], [s |-> "Hola mundo", len |-> 10],
     [s |-> "long", len |-> 8000], [s |-> "huge", len |-> 12004]}

HandleCodes == {"", "es", "fr", "pt_BR", "de", "en", "zh"}

Requests ==
    {Request(<<>>, TRUE, s, t) : s \in HandleCodes, t \in HandleCodes}
    \cup {Request(texts, FALSE, s, t) :
            texts \in SeqsUpTo(HandleTexts, MaxReqTexts),
            s \in HandleCodes, t \in HandleCodes}

Init ==
    /\ router \in {"direct", "hub"}
    /\ entry = "none"
    /\ pc = "start"
    /\ req \in Requests
    /\ newError \in NewErrors
    /\ args = NoArgs
    /\ tc = Returned(Ret(<<>>, ""))
    /\ calls = <<>>
    /\ replies = <<>>
    /\ tcOut = Ret(<<>>, "")
    /\ rOut = NoOut
    /\ resp = ErrorResponse("")
    /\ hRet = NoReturn
    /\ ChunkerIdle
    /\ WarmIdle

Next == HandleCall \/ ValidateRequestCall \/ LambdaReturns

Spec == Init /\ [][Next]_vars

(***************************************************************************)
(* Specification of the router: Init draws the language pair, the chunks   *)
(* and the router revision; the methods of Router are called directly.     *)
(***************************************************************************)
UnknownCodes == {"", "zh", "nl", "ES"}

AllCodes == supportedLanguages \cup UnknownCodes

RouterChunks ==
    {<<>>,
     << <<[s |-> "Hola", len |-> 4], [s |-> "mundo", len |-> 5]>>,
        <<[s |-> "adios", len |-> 5]>> >>}

RouterTexts ==
    {<<>>, <<[s |-> "Hola", len |-> 4], [s |-> "mundo", len |-> 5]>>}

InitRoute ==
    /\ router \in {"direct", "hub"}
    /\ entry = "none"
    /\ pc = "start"
    /\ req = NoRequest
    /\ newError = ""
    /\ args \in [source : AllCodes, target : AllCodes, chunks : RouterChunks,
                 texts : RouterTexts]
    /\ tc = Returned(Ret(<<>>, ""))
    /\ calls = <<>>
    /\ replies = <<>>
    /\ tcOut = Ret(<<>>, "")
    /\ rOut = NoOut
    /\ resp = ErrorResponse("")
    /\ hRet = NoReturn
    /\ ChunkerIdle
    /\ WarmIdle

NextRoute ==
    \/ GetRouteCall
    \/ IsValidPairCall
    \/ HasDirectPairCall
    \/ TranslateChunksCall
    \/ TranslateCall
    \/ LambdaReturns

SpecRoute == InitRoute /\ [][NextRoute]_vars

(***************************************************************************)
(* Both together: a request given to Handle, or a direct call of a method  *)
(* of Router.                                                              *)
(***************************************************************************)
InitAll == Init \/ InitRoute

NextAll == Next \/ NextRoute

SpecAll == InitAll /\ [][NextAll]_vars

(***************************************************************************)
(* The warmup handler as a state machine: HandleWarmup with selfInvoke     *)
(* inline, one step per goroutine statement that touches shared state, and *)
(* the child instances that receive the invocations.                       *)
(***************************************************************************)
\* The events of the schedule: source "warmup" with or without a concurrency.
Triggers ==
    {[source |-> WarmupSource, concurrency |-> c] :
        c \in {<<>>} \cup {<<n>> : n \in -1..MaxConcurrency}}

\* The errors config.LoadDefaultConfig and client.Invoke can return.
ConfigErrors == {"", "failed to load SDK configuration"}
InvokeErrors == {"", "TooManyRequestsException", "context deadline exceeded"}

InitWarm ==
    /\ event \in {IsWarmupEvent(j).warmup : j \in {t \in Triggers : IsWarmupEvent(t).ok}}
    /\ wpc = "start"
    /\ siCount = 0
    /\ cfgErr = ""
    /\ spawned = 0
    /\ wg = 0
    /\ goroutines = <<>>
    /\ errMu = 0
    /\ invokeError = ""
    /\ sent = <<>>
    /\ acquired = <<>>
    /\ stores = <<>>
    /\ siRet = ""
    /\ wResp = NoWarmupResult
    /\ handled = {}
    /\ further = 0
    /\ RouterIdle
    /\ ChunkerIdle

\* HandleWarmup up to the call of selfInvoke or, without it, to the Sleep.
HandleWarmupCall ==
    /\ wpc = "start"
    /\ siCount' = SelfInvokeCount(event)
    /\ wpc' = IF SelfInvokeCount(event) > 0 THEN "selfInvoke" ELSE "sleep"
    /\ UNCHANGED <<event, cfgErr, spawned, wg, goroutines, errMu, invokeError, sent,
                   acquired, stores, siRet, wResp, handled, further>>
    /\ UNCHANGED <<chunkVars, routerVars>>

\* selfInvoke: config.LoadDefaultConfig and the early return on its error.
LoadDefaultConfig ==
    /\ wpc = "selfInvoke"
    /\ \E err \in ConfigErrors :
         /\ cfgErr' = err
         /\ IF err # ""
            THEN siRet' = err /\ wpc' = "sleep"
            ELSE siRet' = siRet /\ wpc' = "loop"
    /\ UNCHANGED <<event, siCount, spawned, wg, goroutines, errMu, invokeError, sent,
                   acquired, stores, wResp, handled, further>>
    /\ UNCHANGED <<chunkVars, routerVars>>

\* One iteration of the loop: wg.Add(1) and the go statement.
Spawn ==
    /\ wpc = "loop"
    /\ wg' = wg + 1
    /\ goroutines' = Append(goroutines, Goroutine("go", ""))
    /\ spawned' = spawned + 1
    /\ wpc' = IF spawned + 1 < siCount THEN "loop" ELSE "wait"
    /\ UNCHANGED <<event, siCount, cfgErr, errMu, invokeError, sent, acquired, stores,
                   siRet, wResp, handled, further>>
    /\ UNCHANGED <<chunkVars, routerVars>>

\* Goroutine k calls client.Invoke.
GoInvoke(k) ==
    /\ goroutines[k].at = "go"
    /\ sent' = Append(sent, InvokeInput(siCount))
    /\ goroutines' = [goroutines EXCEPT ![k].at = "invoking"]
    /\ UNCHANGED <<event, wpc, siCount, cfgErr, spawned, wg, errMu, invokeError,
                   acquired, stores, siRet, wResp, handled, further>>
    /\ UNCHANGED <<chunkVars, routerVars>>

\* Invoke returns in goroutine k: with a nil error the goroutine ends (the
\* deferred wg.Done), otherwise it goes on to errMu.Lock.
InvokeReturns(k) ==
    /\ goroutines[k].at = "invoking"
    /\ \E err \in InvokeErrors :
         IF err = ""
         THEN /\ goroutines' = [goroutines EXCEPT ![k] = Goroutine("done", "")]
              /\ wg' = wg - 1
         ELSE /\ goroutines' = [goroutines EXCEPT ![k] = Goroutine("lock", err)]
              /\ wg' = wg
    /\ UNCHANGED <<event, wpc, siCount, cfgErr, spawned, errMu, invokeError, sent,
                   acquired, stores, siRet, wResp, handled, further>>
    /\ UNCHANGED <<chunkVars, routerVars>>

\* errMu.Lock() in goroutine k.
GoLock(k) ==
    /\ goroutines[k].at = "lock"
    /\ errMu = 0
    /\ errMu' = k
    /\ acquired' = Append(acquired, k)
    /\ goroutines' = [goroutines EXCEPT ![k].at = "locked"]
    /\ UNCHANGED <<event, wpc, siCount, cfgErr, spawned, wg, invokeError, sent,
                   stores, siRet, wResp, handled, further>>
    /\ UNCHANGED <<chunkVars, routerVars>>

\* if invokeErr == nil { invokeErr = err } in goroutine k.
GoStore(k) ==
    /\ goroutines[k].at = "locked"
    /\ LET new == StoreError(invokeError, goroutines[k].err) IN
         /\ invokeError' = new
         /\ stores' = IF new # invokeError
                       THEN Append(stores, [by |-> k, holder |-> errMu, err |-> new])
                       ELSE stores
    /\ goroutines' = [goroutines EXCEPT ![k].at = "unlock"]
    /\ UNCHANGED <<event, wpc, siCount, cfgErr, spawned, wg, errMu, sent, acquired,
                   siRet, wResp, handled, further>>
    /\ UNCHANGED <<chunkVars, routerVars>>

\* errMu.Unlock() and the deferred wg.Done() in goroutine k.
GoUnlock(k) ==
    /\ goroutines[k].at = "unlock"
    /\ errMu' = 0
    /\ wg' = wg - 1
    /\ goroutines' = [goroutines EXCEPT ![k].at = "done"]
    /\ UNCHANGED <<event, wpc, siCount, cfgErr, spawned, invokeError, sent, acquired,
                   stores, siRet, wResp, handled, further>>
    /\ UNCHANGED <<chunkVars, routerVars>>

\* wg.Wait() returns and selfInvoke returns invokeErr.
WaitReturns ==
    /\ wpc = "wait"
    /\ wg = 0
    /\ siRet' = invokeError
    /\ wpc' = "sleep"
    /\ UNCHANGED <<event, siCount, cfgErr, spawned, wg, goroutines, errMu, invokeError,
                   sent, acquired, stores, wResp, handled, further>>
    /\ UNCHANGED <<chunkVars, routerVars>>

\* The rest of HandleWarmup: the count, the Sleep and the return.
HandleWarmupReturn ==
    /\ wpc = "sleep"
    /\ wResp' = WarmupResult(InstancesWarmed(event, siRet))
    /\ wpc' = "done"
    /\ UNCHANGED <<event, siCount, cfgErr, spawned, wg, goroutines, errMu, invokeError,
                   sent, acquired, stores, siRet, handled, further>>
    /\ UNCHANGED <<chunkVars, routerVars>>

\* A child instance receives invocation k and handles it: IsWarmupEvent on
\* the payload, then HandleWarmup, which asks for SelfInvokeCount invocations.
ChildHandles(k) ==
    /\ k \in (1..Len(sent)) \ handled
    /\ handled' = handled \cup {k}
    /\ LET parsed == IsWarmupEvent(sent[k].Payload) IN
         further' = further + (IF parsed.ok THEN SelfInvokeCount(parsed.warmup) ELSE 0)
    /\ UNCHANGED <<event, wpc, siCount, cfgErr, spawned, wg, goroutines, errMu,
                   invokeError, sent, acquired, stores, siRet, wResp>>
    /\ UNCHANGED <<chunkVars, routerVars>>

\* The steps of the instance that received the trigger.
RootStep ==
    \/ HandleWarmupCall
    \/ LoadDefaultConfig
    \/ Spawn
    \/ \E k \in 1..Len(goroutines) : GoInvoke(k)
    \/ \E k \in 1..Len(goroutines) : InvokeReturns(k)
    \/ \E k \in 1..Len(goroutines) : GoLock(k)
    \/ \E k \in 1..Len(goroutines) : GoStore(k)
    \/ \E k \in 1..Len(goroutines) : GoUnlock(k)
    \/ WaitReturns
    \/ HandleWarmupReturn

NextWarm == RootStep \/ \E k \in 1..MaxConcurrency + 1 : ChildHandles(k)

SpecWarm == InitWarm /\ [][NextWarm]_vars

\* The Go scheduler runs every goroutine that can run, an unlocked mutex is
\* handed to a waiting goroutine, and every call of Invoke returns.
SpecWarmFair == SpecWarm /\ WF_vars(RootStep)

(***************************************************************************)
(* Claims about the chunkers.                                              *)
(***************************************************************************)
\* C1: concatenating the batches returned by ChunkByTokens, in order,
\* reproduces the input sequence exactly (same items, same count, same order),
\* for every input and every budget.
C1_ConcatReproducesInput ==
    cOp = "ChunkByTokens" => Flatten(cOut) = cTexts

\* C1 witness: an input of at least three texts has been split into at least
\* two batches, one of them holding several texts.
C1_Witness ==
    /\ cOp = "ChunkByTokens"
    /\ Len(cTexts) >= 3
    /\ Len(cOut) >= 2
    /\ \E k \in 1..Len(cOut) : Len(cOut[k]) >= 2

RECURSIVE BatchCost(_)
\* the summed estimated cost of a batch
BatchCost(batch) ==
    IF batch = <<>> THEN 0
    ELSE EstimateTokens(Head(batch)) + BatchCost(Tail(batch))

\* C2: with budget > 0, every batch returned by ChunkByTokens either costs at
\* most budget in total or is a single text whose own cost exceeds budget;
\* equivalently, every text whose cost exceeds the budget is alone in its batch.
C2_BatchWithinBudgetOrOversizedSingleton ==
    (cOp = "ChunkByTokens" /\ cMax > 0) =>
        \A k \in 1..Len(cOut) :
            /\ \/ BatchCost(cOut[k]) <= cMax
               \/ Len(cOut[k]) = 1 /\ EstimateTokens(cOut[k][1]) > cMax
            /\ \A i \in 1..Len(cOut[k]) :
                   EstimateTokens(cOut[k][i]) > cMax => Len(cOut[k]) = 1

\* C2 witness: one result holds an oversized text alone in its batch and
\* another batch of several texts that fills the budget exactly.
C2_Witness ==
    /\ cOp = "ChunkByTokens"
    /\ cMax > 0
    /\ \E k \in 1..Len(cOut) :
           Len(cOut[k]) = 1 /\ EstimateTokens(cOut[k][1]) > cMax
    /\ \E k \in 1..Len(cOut) :
           Len(cOut[k]) >= 2 /\ BatchCost(cOut[k]) = cMax

(***************************************************************************)
(* Claims about the handler and the router.                                *)
(***************************************************************************)
\* str contains sub
Contains(str, sub) ==
    \E i \in 1..(Len(str) - Len(sub) + 1) : SubSeq(str, i, i + Len(sub) - 1) = sub

\* The request breaks one of the four validation rules.
RequestInvalid ==
    \/ req.SourceLang = ""
    \/ req.TargetLang = ""
    \/ req.SourceLang = req.TargetLang
    \/ req.TextsNil

\* The language set the built-in router revision translates between.
KnownLanguages ==
    IF router = "direct" THEN {"es", "it", "pt", "fr", "de"}
    ELSE romanceLanguages \cup {"de", "en"}

\* The request's language pair is one the router translates.
PairSupported ==
    /\ req.SourceLang \in KnownLanguages
    /\ req.TargetLang \in KnownLanguages
    /\ req.SourceLang # req.TargetLang

\* Rejected: an error response, no remote call, and for two equal language
\* codes (both given) an error containing "must be different".
RejectedWithoutCalls ==
    /\ pc = "done"
    /\ resp.Error # ""
    /\ calls = <<>>
    /\ (req.SourceLang = req.TargetLang /\ req.SourceLang # "")
           => Contains(resp.Error, "must be different")

\* C3 as stated: in Handle no remote invocation is issued unless the request
\* passed validation and its pair was accepted, and every request that is
\* invalid or has an unsupported pair ends in an error response with zero
\* remote calls.
C3_Original ==
    entry = "Handle" =>
        /\ calls # <<>> => (~RequestInvalid /\ PairSupported)
        /\ (RequestInvalid \/ ~PairSupported) => RejectedWithoutCalls

\* C3 as amended: in Handle no remote invocation is issued unless the request
\* passed validation and its pair was accepted; every invalid request, and
\* every valid request with at least one text and an unsupported pair, ends
\* in an error response with zero remote calls.  (A valid request with zero
\* texts is answered with success before the pair is looked at.)
C3_NoCallUnlessValidated ==
    entry = "Handle" =>
        /\ calls # <<>> => (~RequestInvalid /\ PairSupported)
        /\ (RequestInvalid \/ (~PairSupported /\ Len(req.Texts) > 0))
               => RejectedWithoutCalls

\* C3 witness: a valid request with texts and an unsupported pair has been
\* answered with an error and no call.
C3_Witness ==
    /\ entry = "Handle" /\ pc = "done"
    /\ ~RequestInvalid /\ ~PairSupported /\ Len(req.Texts) > 0
    /\ resp.Error # "" /\ calls = <<>>

\* The reply reports a failure of one of the four kinds.
ReplyFailed(reply) ==
    \/ reply.invokeErr # ""
    \/ reply.functionError # <<>>
    \/ reply.parseErr # ""
    \/ reply.Error # ""

\* C4: TranslateChunks runs the hops of the route one after another in route
\* order: hop 1 is sent exactly the caller's batches, hop k+1 exactly the
\* batches hop k returned, hop k+1 is not invoked before hop k has returned,
\* and the result is exactly what the last hop returned.
C4_HopsInSequence ==
    (router = "hub" /\ entry = "TranslateChunks") =>
        LET expected == getRoute(args.source, args.target) IN
        /\ Len(calls) <= Len(expected)
        /\ Len(replies) <= Len(calls) /\ Len(calls) <= Len(replies) + 1
        /\ \A k \in 1..Len(calls) :
               /\ calls[k].FunctionName = expected[k].lambdaName
               /\ calls[k].TargetLang = expected[k].targetLang
               /\ calls[k].Chunks = IF k = 1 THEN args.chunks
                                    ELSE replies[k - 1].Translations
               /\ k > 1 => ~ReplyFailed(replies[k - 1])
        /\ (pc = "done" /\ tcOut.err = "" /\ args.chunks # <<>>) =>
               /\ Len(replies) = Len(expected)
               /\ tcOut.chunks = replies[Len(replies)].Translations

\* C4 witness: a two-hop call has returned, and its first hop answered with
\* batches that differ from the ones it was sent.
C4_Witness ==
    /\ router = "hub" /\ entry = "TranslateChunks" /\ pc = "done"
    /\ tcOut.err = ""
    /\ Len(calls) = 2 /\ Len(replies) = 2
    /\ Len(calls[2].Chunks) # Len(calls[1].Chunks)

\* C5: if hop k fails, TranslateChunks stops there: no later hop is invoked,
\* the failed hop is not invoked again, the caller gets an error and no
\* batches, and Handle's response has only its error populated.
C5_AbortOnHopFailure ==
    entry = "Handle" =>
        \A k \in 1..Len(replies) :
            ReplyFailed(replies[k]) =>
                /\ Len(calls) = k /\ Len(replies) = k
                /\ pc = "done"
                /\ tcOut.err # "" /\ tcOut.chunks = <<>>
                /\ resp.Error # ""
                /\ resp.Translations = <<>> /\ resp.TranslationsNil
                /\ resp.ChunksProcessed = 0

\* C5 witness: the second hop of a request failed after the first succeeded.
C5_Witness ==
    /\ entry = "Handle" /\ pc = "done"
    /\ Len(replies) = 2
    /\ ~ReplyFailed(replies[1]) /\ ReplyFailed(replies[2])
    /\ resp.Error # ""

\* The reply has the batches of the call: as many, each as long, and item i of
\* batch k is the translation of item i of batch k.
ShapeKept(call, reply) ==
    /\ ~ReplyFailed(reply)
    /\ Len(reply.Translations) = Len(call.Chunks)
    /\ \A k \in 1..Len(call.Chunks) :
           /\ Len(reply.Translations[k]) = Len(call.Chunks[k])
           /\ \A i \in 1..Len(call.Chunks[k]) :
                  reply.Translations[k][i] = Translated(call, call.Chunks[k][i])

RECURSIVE Through(_, _)
\* the text after each of the calls has translated it, in order
Through(text, cs) ==
    IF cs = <<>> THEN text
    ELSE Through(Translated(Head(cs), text), Tail(cs))

\* C6: provided every hop returned as many batches as it received, each as
\* long and in the same item order, a successful response has as many
\* translations as the request has texts, and translations[i] is the result
\* for texts[i].
C6_TranslationsMatchTexts ==
    (/\ entry = "Handle" /\ pc = "done" /\ resp.Error = ""
     /\ \A k \in 1..Len(replies) : ShapeKept(calls[k], replies[k])) =>
        /\ Len(resp.Translations) = Len(req.Texts)
        /\ \A i \in 1..Len(req.Texts) :
               resp.Translations[i] = Through(req.Texts[i], calls)

\* C6 witness: a request of several texts in several batches went through two
\* hops that kept the shape, and was answered with success.
C6_Witness ==
    /\ entry = "Handle" /\ pc = "done" /\ resp.Error = ""
    /\ Len(req.Texts) >= 3 /\ Len(args.chunks) >= 2
    /\ Len(replies) = 2
    /\ \A k \in 1..Len(replies) : ShapeKept(calls[k], replies[k])

\* The language pair given to the router is valid: both codes known, distinct.
Romance(code) == code \in romanceLanguages
ValidArgs ==
    /\ args.source \in romanceLanguages \cup {"de", "en"}
    /\ args.target \in romanceLanguages \cup {"de", "en"}
    /\ args.source # args.target

\* The documented routing table, by service name.
RoutingTable(source, target) ==
    CASE Romance(source) /\ target = "en" -> <<"romance-en">>
      [] source = "en" /\ Romance(target) -> <<"en-romance">>
      [] source = "de" /\ target = "en" -> <<"de-en">>
      [] source = "en" /\ target = "de" -> <<"en-de">>
      [] Romance(source) /\ Romance(target) -> <<"romance-en", "en-romance">>
      [] Romance(source) /\ target = "de" -> <<"romance-en", "en-de">>
      [] source = "de" /\ Romance(target) -> <<"de-en", "en-romance">>

\* C7: for every valid pair getRoute returns exactly the services of the
\* documented routing table, and every two-hop route pivots through en: the
\* inbound service of the source, then an outbound service of en.
C7_RouteIsRoutingTable ==
    (entry = "getRoute" /\ ValidArgs) =>
        LET table == RoutingTable(args.source, args.target) IN
        /\ Len(rOut.route) = Len(table)
        /\ \A k \in 1..Len(table) :
               rOut.route[k].lambdaName = "pricofy-translator-" \o table[k]
        /\ Len(rOut.route) = 2 =>
               /\ rOut.route[1].lambdaName =
                      IF args.source = "de" THEN "pricofy-translator-de-en"
                      ELSE "pricofy-translator-romance-en"
               /\ rOut.route[2].lambdaName \in
                      {"pricofy-translator-en-romance", "pricofy-translator-en-de"}

\* C7 witness: a route from a romance language to German has been resolved.
C7_Witness ==
    /\ entry = "getRoute" /\ ValidArgs
    /\ Romance(args.source) /\ args.target = "de"
    /\ Len(rOut.route) = 2

\* C8: getRoute returns exactly 1 hop for a romance language with en (either
\* direction) and for en<->de, exactly 2 hops for a romance language to a
\* different romance language and for a romance language with de (either
\* direction), and never more than 2 hops.
C8_HopCount ==
    entry = "getRoute" =>
        /\ Len(rOut.route) <= 2
        /\ ValidArgs =>
               Len(rOut.route) =
                   IF args.source = "en" \/ args.target = "en" THEN 1 ELSE 2

\* C8 witness: the hub-to-hub pair de->en has been resolved to one hop.
C8_Witness ==
    /\ entry = "getRoute"
    /\ args.source = "de" /\ args.target = "en"
    /\ Len(rOut.route) = 1

\* The number of ordered pairs HasDirectPair accepts.
DirectPairCount ==
    Cardinality({p \in AllCodes \X AllCodes : HasDirectPair(p[1], p[2])})

\* C9: IsValidPair is true iff both codes are in the known set (the romance
\* set plus de and en) and differ; HasDirectPair is the same predicate over
\* {es, it, pt, fr, de}: exactly 20 ordered pairs, none with en.
C9_ValidPairIffKnownAndDistinct ==
    /\ entry = "IsValidPair" =>
           rOut.valid = (/\ args.source \in romanceLanguages \cup {"de", "en"}
                         /\ args.target \in romanceLanguages \cup {"de", "en"}
                         /\ args.source # args.target)
    /\ entry = "HasDirectPair" =>
           /\ rOut.valid = (/\ args.source \in {"es", "it", "pt", "fr", "de"}
                            /\ args.target \in {"es", "it", "pt", "fr", "de"}
                            /\ args.source # args.target)
           /\ ("en" \in {args.source, args.target}) => ~rOut.valid
           /\ DirectPairCount = 20

\* C9 witness: IsValidPair has rejected a known code paired with itself.
C9_Witness ==
    /\ entry = "IsValidPair"
    /\ args.source \in supportedLanguages /\ args.source = args.target
    /\ rOut.valid = FALSE

\* One of the two codes given to the router is outside the known set.
UnknownArgs ==
    \/ args.source \notin romanceLanguages \cup {"de", "en"}
    \/ args.target \notin romanceLanguages \cup {"de", "en"}

\* C10: getRoute returns no route when either code is outside the known set
\* (the empty string included), and TranslateChunks with a non-empty batch
\* list then fails with an "unsupported language pair" error.
C10_UnknownCodeHasNoRoute ==
    /\ (entry = "getRoute" /\ UnknownArgs) => rOut.route = <<>>
    /\ (/\ router = "hub" /\ entry = "TranslateChunks"
        /\ UnknownArgs /\ args.chunks # <<>>) =>
           /\ pc = "done"
           /\ calls = <<>>
           /\ tcOut.chunks = <<>>
           /\ Contains(tcOut.err, "unsupported language pair")

\* C10 witness: TranslateChunks has failed for batches in an unknown language.
C10_Witness ==
    /\ router = "hub" /\ entry = "TranslateChunks" /\ pc = "done"
    /\ args.source = "zh" /\ args.target = "en" /\ args.chunks # <<>>
    /\ tcOut.err = "unsupported language pair: zh-en"

C12_ChunksProcessedIsInitialBatchCount ==
    (entry = "Handle" /\ pc = "done" /\ resp.Error = "") =>
        resp.ChunksProcessed = Len(ChunkByTokens(req.Texts, DefaultMaxTokens))

\* C12 witness: a request chunked into two batches or more went through two
\* hops, the last of which returned another number of batches, and was
\* answered with success.
C12_Witness ==
    /\ entry = "Handle" /\ pc = "done" /\ resp.Error = ""
    /\ Len(replies) = 2
    /\ resp.ChunksProcessed >= 2
    /\ Len(tcOut.chunks) # resp.ChunksProcessed

\* The keys of the success shape and of the error shape.
SuccessKeys == {"translations", "chunksProcessed"}
ErrorKeys == {"error"}

\* C13: every response of Handle, once marshalled, has exactly one of the two
\* shapes populated: a success field (translations, chunksProcessed) or the
\* error field, never both and never neither.
C13_ExactlyOneShape ==
    (entry = "Handle" /\ pc = "done") =>
        LET payload == Marshal(resp) IN
        (payload \cap SuccessKeys # {}) # (payload \cap ErrorKeys # {})

\* Handle met a failure: of validation or, for a request with texts, of the
\* construction of the router, of the pair test or of a hop.
HandleFailed ==
    \/ validateRequest(req) # ""
    \/ /\ Len(req.Texts) > 0
       /\ \/ newError # ""
          \/ ~PairSupported
          \/ \E k \in 1..Len(replies) : ReplyFailed(replies[k])

\* C14: on every path Handle returns a non-nil Response and a nil Go error,
\* and every failure of validation, routing, router construction and hop
\* execution is reported through the error field of the Response and nowhere
\* else.
C14_FailuresOnlyInResponse ==
    (entry = "Handle" /\ pc = "done") =>
        /\ ~hRet.respNil
        /\ hRet.err = ""
        /\ HandleFailed =>
               /\ resp.Error # ""
               /\ resp.Translations = <<>> /\ resp.ChunksProcessed = 0

\* C14 witness: the construction of the router failed for a valid request
\* with texts, and Handle returned a Response carrying that failure.
C14_Witness ==
    /\ entry = "Handle" /\ pc = "done"
    /\ validateRequest(req) = "" /\ Len(req.Texts) > 0 /\ newError # ""
    /\ resp.Error = "failed to create router: " \o newError
    /\ ~hRet.respNil /\ hRet.err = ""

\* C15: validateRequest reports the first violated rule in the order empty
\* sourceLang, empty targetLang, equal languages, nil texts, each with its
\* own message, and accepts every other request; a present but empty texts
\* list is valid, a nil one is an error.
C15_FirstViolatedRule ==
    entry = "validateRequest" =>
        LET noSource == req.SourceLang = ""
            noTarget == req.TargetLang = ""
            same == req.SourceLang = req.TargetLang
        IN
        /\ rOut.err = "sourceLang is required" <=> noSource
        /\ rOut.err = "targetLang is required" <=> (~noSource /\ noTarget)
        /\ rOut.err = "sourceLang and targetLang must be different"
               <=> (~noSource /\ ~noTarget /\ same)
        /\ rOut.err = "texts is required"
               <=> (~noSource /\ ~noTarget /\ ~same /\ req.TextsNil)
        /\ rOut.err = "" <=> (~noSource /\ ~noTarget /\ ~same /\ ~req.TextsNil)
        /\ (~noSource /\ ~noTarget /\ ~same /\ ~req.TextsNil /\ Len(req.Texts) = 0)
               => rOut.err = ""

\* C15 witness: a request that breaks the first and the last rule at once has
\* been given the message of the first.
C15_Witness ==
    /\ entry = "validateRequest" /\ pc = "done"
    /\ req.SourceLang = "" /\ req.TargetLang = "es" /\ req.TextsNil
    /\ rOut.err = "sourceLang is required"

\* The number of hops of the request's route: one in the direct-pair router.
HopsOfRequest ==
    IF router = "direct" THEN 1 ELSE Len(getRoute(req.SourceLang, req.TargetLang))

\* C16: the number of remote invocations of one request does not depend on
\* the number of batches: there are never more invocations than hops, and
\* when every hop succeeded there is exactly one per hop (exactly one in the
\* direct-pair router), each carrying all the batches of that stage.
C16_OneInvocationPerHop ==
    entry = "Handle" =>
        /\ Len(calls) <= HopsOfRequest
        /\ (pc = "done" /\ resp.Error = "" /\ Len(req.Texts) > 0) =>
               /\ Len(calls) = HopsOfRequest
               /\ \A k \in 1..Len(calls) :
                      calls[k].Chunks = IF k = 1 THEN args.chunks
                                        ELSE replies[k - 1].Translations

\* C16 witness: a request of three batches was served by the direct-pair
\* router with a single invocation.
C16_Witness ==
    /\ entry = "Handle" /\ pc = "done" /\ resp.Error = ""
    /\ router = "direct"
    /\ Len(args.chunks) = 3
    /\ Len(calls) = 1 /\ Len(calls[1].Chunks) = 3

EmptyTexts(batch) == Cardinality({i \in 1..Len(batch) : batch[i].len = 0})

\* C18: when ChunkByTokens sizes a batch an empty text counts for a cost of
\* at least 1: the cost accumulated for a batch is at least the number of
\* empty texts in it, and no batch holds more empty texts than the budget.
C18_EmptyTextCostsAtLeastOne ==
    (cOp = "ChunkByTokens" /\ cMax > 0) =>
        \A k \in 1..Len(cOut) :
            /\ BatchCost(cOut[k]) >= EmptyTexts(cOut[k])
            /\ EmptyTexts(cOut[k]) <= cMax

\* C19: for every input and every budget <= 0, ChunkByTokens returns the
\* batches it returns for DefaultMaxTokens, and for every maxTexts <= 0
\* ChunkTexts returns the batches it returns for DefaultMaxTextsPerChunk.
C19_NonPositiveBudgetIsDefault ==
    /\ (cOp = "ChunkByTokens" /\ cMax <= 0) =>
           cOut = ChunkByTokens(cTexts, DefaultMaxTokens)
    /\ (cOp = "ChunkTexts" /\ cMax <= 0) =>
           cOut = ChunkTexts(cTexts, DefaultMaxTextsPerChunk)

\* C19 witness: with a negative budget, texts that exceed the default budget
\* together have been split in two batches, one of them holding two texts.
C19_Witness ==
    /\ cOp = "ChunkByTokens" /\ cMax < 0
    /\ Len(cOut) = 2
    /\ \E k \in 1..Len(cOut) : Len(cOut[k]) = 2

\* C20: ChunkByTokens never returns an empty batch: for an empty (or nil)
\* input it returns no batch at all, and for a non-empty input at least one
\* batch, each holding at least one text.
C20_NoEmptyBatch ==
    cOp = "ChunkByTokens" =>
        /\ Len(cTexts) = 0 => cOut = <<>>
        /\ Len(cTexts) > 0 => Len(cOut) >= 1
        /\ \A k \in 1..Len(cOut) : Len(cOut[k]) >= 1

\* C20 witness: an input ending in an oversized text, which leaves no chunk
\* open at the end of the loop, has been split in batches.
C20_Witness ==
    /\ cOp = "ChunkByTokens" /\ cMax > 0
    /\ Len(cTexts) >= 2
    /\ EstimateTokens(cTexts[Len(cTexts)]) > cMax
    /\ Len(cOut) >= 2

(***************************************************************************)
(* Claims about the sub-target of a hop.                                   *)
(***************************************************************************)
\* C21: in every route a hop on the en-romance service, alone or as the
\* second hop of a pivot, carries the requested target language as its
\* sub-target, and every hub-inbound hop (romance-en, de-en) carries none.
C21_SubTargetOnlyForEnRomance ==
    entry = "getRoute" =>
        \A k \in 1..Len(rOut.route) :
            LET step == rOut.route[k] IN
            /\ step.lambdaName = "pricofy-translator-en-romance"
                   => step.targetLang = args.target
            /\ step.lambdaName \in {"pricofy-translator-romance-en",
                                    "pricofy-translator-de-en"}
                   => step.targetLang = ""

\* C21 witness: German to a romance variant has been resolved to a pivot
\* whose second hop carries the variant.
C21_Witness ==
    /\ entry = "getRoute"
    /\ args.source = "de" /\ args.target = "pt_BR"
    /\ Len(rOut.route) = 2
    /\ rOut.route[2].targetLang = "pt_BR"

\* The source is the hub en and the target is reachable from it directly.
FromHub == args.source = "en" /\ (Romance(args.target) \/ args.target = "de")

\* C22 as stated: from en to a romance language and from en to de the route
\* is a single hub-outbound hop whose sub-target is the target language.
C22_Original ==
    (entry = "getRoute" /\ FromHub) =>
        /\ Len(rOut.route) = 1
        /\ rOut.route[1].lambdaName \in {"pricofy-translator-en-romance",
                                         "pricofy-translator-en-de"}
        /\ rOut.route[1].targetLang = args.target

\* C22 as amended: from en to a romance language and from en to de the route
\* is a single hub-outbound hop; the en-romance hop carries the target
\* language as its sub-target, the en-de hop carries no sub-target.
C22_SingleOutboundHop ==
    (entry = "getRoute" /\ FromHub) =>
        /\ Len(rOut.route) = 1
        /\ Romance(args.target) =>
               rOut.route[1] = Step("pricofy-translator-en-romance", args.target)
        /\ args.target = "de" =>
               rOut.route[1] = Step("pricofy-translator-en-de", "")

\* C22 witness: en to de has been resolved to the en-de hop with no
\* sub-target.
C22_Witness ==
    /\ entry = "getRoute"
    /\ args.source = "en" /\ args.target = "de"
    /\ Len(rOut.route) = 1
    /\ rOut.route[1].targetLang = ""

(***************************************************************************)
(* Claims about ChunkTexts and the packing of ChunkByTokens.               *)
(***************************************************************************)
\* n / d rounded up, for n >= 0 and d > 0
CeilDiv(n, d) == (n + d - 1) \div d

\* C25: for maxTexts > 0 ChunkTexts returns ceil(n / maxTexts) batches for n
\* texts: every batch but the last holds exactly maxTexts texts, the last
\* between 1 and maxTexts, the batches concatenated are the input in order,
\* and an empty input gives no batch.
C25_ChunkTextsBatches ==
    (cOp = "ChunkTexts" /\ cMax > 0) =>
        /\ Len(cOut) = CeilDiv(Len(cTexts), cMax)
        /\ \A k \in 1..Len(cOut) :
               IF k < Len(cOut) THEN Len(cOut[k]) = cMax
               ELSE Len(cOut[k]) >= 1 /\ Len(cOut[k]) <= cMax
        /\ Flatten(cOut) = cTexts
        /\ Len(cTexts) = 0 => cOut = <<>>

\* C25 witness: four texts have been cut by three into a full batch and a
\* short last one.
C25_Witness ==
    /\ cOp = "ChunkTexts" /\ cMax = 3
    /\ Len(cTexts) = 4
    /\ Len(cOut) = 2 /\ Len(cOut[1]) = 3 /\ Len(cOut[2]) = 1

\* The budget ChunkByTokens works with.
EffectiveBudget == IF cMax <= 0 THEN DefaultMaxTokens ELSE cMax

\* The text is oversized: its own cost exceeds the budget.
Oversized(text) == EstimateTokens(text) > EffectiveBudget

\* C26: ChunkByTokens packs greedily.  Two consecutive batches are separated
\* only if the last text of the first or the first text of the second is
\* oversized, or if the cost of the first batch plus the cost of that next
\* text exceeds the budget.  So n texts of one cost c, 0 < c <= budget, give
\* ceil(n / floor(budget / c)) batches, each but the last of floor(budget / c)
\* texts, and texts that fit the budget together give a single batch.
C26_GreedyPacking ==
    cOp = "ChunkByTokens" =>
        /\ \A k \in 1..(Len(cOut) - 1) :
               \/ Oversized(cOut[k][Len(cOut[k])])
               \/ Oversized(cOut[k + 1][1])
               \/ BatchCost(cOut[k]) + EstimateTokens(cOut[k + 1][1]) > EffectiveBudget
        /\ Len(cTexts) > 0 =>
               LET c == EstimateTokens(cTexts[1]) IN
               (/\ c > 0 /\ c <= EffectiveBudget
                /\ \A i \in 1..Len(cTexts) : EstimateTokens(cTexts[i]) = c) =>
                   LET per == EffectiveBudget \div c IN
                   /\ Len(cOut) = CeilDiv(Len(cTexts), per)
                   /\ \A k \in 1..(Len(cOut) - 1) : Len(cOut[k]) = per
        /\ (Len(cTexts) > 0 /\ BatchCost(cTexts) <= EffectiveBudget) => Len(cOut) = 1

\* C26 witness: four texts of cost 1 have been packed under a budget of 2
\* into two batches of two.
C26_Witness ==
    /\ cOp = "ChunkByTokens" /\ cMax = 2
    /\ Len(cTexts) = 4
    /\ \A i \in 1..Len(cTexts) : EstimateTokens(cTexts[i]) = 1
    /\ Len(cOut) = 2 /\ Len(cOut[1]) = 2 /\ Len(cOut[2]) = 2

(***************************************************************************)
(* Claims about the failure of a hop                                       *)
(***************************************************************************)
StartsWith(str, prefix) ==
    Len(str) >= Len(prefix) /\ SubSeq(str, 1, Len(prefix)) = prefix

\* C27: a transport error, a function error, an unparseable payload and a
\* non-empty application error of a hop are all hop failures: TranslateChunks
\* invokes nothing after the failing hop, returns no batches, and its error
\* names the hop by its 1-based position in the route and by the name of the
\* service; a hop that answers with none of the four is not a failure.
C27_HopFailureNamesStep ==
    (router = "hub" /\ entry = "TranslateChunks" /\ Len(replies) > 0) =>
        LET k == Len(replies) IN
        /\ \A j \in 1..(k - 1) : ~ReplyFailed(replies[j])
        /\ pc = "done" =>
              IF ReplyFailed(replies[k])
              THEN /\ Len(calls) = k
                   /\ tcOut.chunks = <<>>
                   /\ StartsWith(tcOut.err,
                         "step " \o ToString(k) \o " ("
                           \o getRoute(args.source, args.target)[k].lambdaName
                           \o ") failed: ")
              ELSE tcOut.err = ""

\* The second hop of a pivot route has failed with an application error.
C27_Witness ==
    /\ router = "hub" /\ entry = "TranslateChunks" /\ pc = "done"
    /\ Len(replies) = 2
    /\ replies[2].Error # ""
    /\ tcOut.err = "step 2 (pricofy-translator-en-romance) failed: translator error: out of memory"

(***************************************************************************)
(* Claims about the agreement of getRoute with IsValidPair                 *)
(***************************************************************************)
\* C29: getRoute(source, target) returns a route if and only if
\* IsValidPair(source, target) is true: every valid pair has a route, and no
\* route is returned for an invalid pair, a pair of one language with itself
\* included.
C29_RouteIffValidPair ==
    (entry = "getRoute" /\ pc = "done") =>
        /\ (rOut.route # <<>>) <=> IsValidPair(args.source, args.target)
        /\ args.source = args.target => rOut.route = <<>>

(***************************************************************************)
(* Claims about the length of a successful response                        *)
(***************************************************************************)
\* C30: whatever the hops return, a response of Handle without an error has
\* exactly as many translations as the request has texts.
C30_SuccessHasOneTranslationPerText ==
    (entry = "Handle" /\ pc = "done" /\ resp.Error = "") =>
        Len(resp.Translations) = Len(req.Texts)

(***************************************************************************)
(* Claims about the warmup handler                                         *)
(***************************************************************************)
\* selfInvoke was called and has returned to HandleWarmup.
SelfInvokeReturned == siCount > 0 /\ wpc \in {"sleep", "done"}

\* The shared error was assigned at most once, by the goroutine holding errMu.
StoredOnceUnderLock ==
    /\ Len(stores) <= 1
    /\ \A n \in 1..Len(stores) : stores[n].holder = stores[n].by

\* What the claim says of a returned selfInvoke(count = N).
FanOutOutcome ==
    /\ Len(goroutines) = siCount
    /\ Len(sent) = siCount
    /\ \A k \in 1..Len(goroutines) : goroutines[k].at = "done"
    /\ (siRet = "") <=> (\A k \in 1..Len(goroutines) : goroutines[k].err = "")
    /\ siRet # "" => (acquired # <<>> /\ siRet = goroutines[acquired[1]].err)

\* C23 as stated: selfInvoke(count = N) starts N invocations and returns only
\* after all N have returned, whatever failed; the error slot is written only
\* under the lock and at most once; it returns nil exactly when all N
\* invocations succeeded, and otherwise the error of the first failing
\* invocation to acquire the lock.
C23_Original ==
    /\ StoredOnceUnderLock
    /\ SelfInvokeReturned => FanOutOutcome

\* C23, amended: the same once the client configuration has loaded; when
\* loading it fails, selfInvoke returns that error and starts no invocation.
C23_FanOutJoinsAndKeepsFirstError ==
    /\ StoredOnceUnderLock
    /\ SelfInvokeReturned =>
          IF cfgErr = "" THEN FanOutOutcome
          ELSE siRet = cfgErr /\ sent = <<>> /\ goroutines = <<>>

\* Two invocations failed with different errors, the second goroutine locked
\* first, and selfInvoke returned its error.
C23_Witness ==
    /\ SelfInvokeReturned /\ cfgErr = "" /\ siCount = 2
    /\ acquired = <<2, 1>>
    /\ goroutines[1].err = "TooManyRequestsException"
    /\ goroutines[2].err = "context deadline exceeded"
    /\ siRet = "context deadline exceeded"

\* Something of the fan-out failed: the configuration or an invocation.
FanOutFailed ==
    \/ cfgErr # ""
    \/ \E k \in 1..Len(goroutines) : goroutines[k].err # ""

\* C24: HandleWarmup always answers statusCode 200, status "warm" and a nil
\* error; instancesWarmed is 1 + concurrency when concurrency > 0 and the
\* fan-out reported no error (nothing of it failed), and 1 otherwise.
C24_AlwaysWarm ==
    wpc = "done" =>
        /\ wResp.statusCode = 200
        /\ wResp.body.Status = "warm"
        /\ wResp.err = ""
        /\ wResp.body.InstancesWarmed =
              (IF event.Concurrency > 0 /\ siRet = ""
               THEN 1 + event.Concurrency ELSE 1)
        /\ wResp.body.InstancesWarmed =
              (IF event.Concurrency > 0 /\ ~FanOutFailed
               THEN 1 + event.Concurrency ELSE 1)

\* One of two invocations failed and the answer is still "warm", with 1.
C24_Witness ==
    /\ wpc = "done" /\ event.Concurrency = 2 /\ cfgErr = ""
    /\ goroutines[1].err = "" /\ goroutines[2].err # ""
    /\ wResp.statusCode = 200 /\ wResp.body.InstancesWarmed = 1

\* The invocations a trigger with this event asks for.
Wanted == IF event.Concurrency > 0 THEN event.Concurrency ELSE 0

\* Every child is sent concurrency 0, an event with concurrency <= 0 issues
\* no invocation, and no child issues one.
NoRecursion ==
    /\ \A k \in 1..Len(sent) :
          sent[k].Payload = [source |-> "warmup", concurrency |-> <<0>>]
    /\ event.Concurrency <= 0 => sent = <<>>
    /\ further = 0
    /\ Len(sent) <= Wanted

\* C28 as stated: the fan-out cannot recurse, and one trigger with
\* concurrency N causes exactly N child invocations in total.
C28_Original ==
    /\ NoRecursion
    /\ wpc = "done" => Len(sent) = Wanted

\* C28, amended: the fan-out cannot recurse; one trigger with concurrency N
\* causes exactly N child invocations when the client configuration loads
\* and none when it does not; and the handling of the trigger always ends.
C28_FanOutBoundedAndTerminates ==
    /\ [](/\ NoRecursion
          /\ wpc = "done" => Len(sent) = (IF cfgErr = "" THEN Wanted ELSE 0))
    /\ <>(wpc = "done")

\* A trigger with concurrency 2 has been answered, both children have
\* handled their invocation, and nothing further was invoked.
C28_Witness ==
    /\ wpc = "done" /\ event.Concurrency = 2
    /\ Len(sent) = 2 /\ handled = {1, 2}
    /\ further = 0

====
